---- MODULE Spec2Model ----
(***************************************************************************)
(* Model of examples/pytorch/text-classification/run_glue.py: argument     *)
(* validation (DataTrainingArguments.__post_init__) and the body of main() *)
(* cut into its consecutive code sections, one action per section.         *)
(* The external collaborators (load_dataset, AutoConfig, Trainer, the      *)
(* file system) are inputs chosen in the initial state.                    *)
(***************************************************************************)
EXTENDS Integers, Sequences, FiniteSets, TLC

\* ------------------------------------------------------------------------
\* Bounds of the model
\* ------------------------------------------------------------------------
MaxLabels == 2
MaxExamples == 1
MaxProcs == 2

\* ------------------------------------------------------------------------
\* Python values
\* ------------------------------------------------------------------------
NONE == "<None>"
None == << >>
Some(x) == << x >>
IsNone(o) == Len(o) = 0
Get(o) == o[1]

IntV(i) == [k |-> "int", n |-> i, s |-> ""]
StrV(t) == [k |-> "str", n |-> 0, s |-> t]
FloatV(i) == [k |-> "float", n |-> i, s |-> ""]
Sentinel == IntV(-1)

Range(f) == {f[i] : i \in DOMAIN f}
IsInjective(f) == \A i, j \in DOMAIN f : f[i] = f[j] => i = j
InjectiveSeqs(S, n) == {q \in [1..n -> S] : IsInjective(q)}
SeqsUpTo(S, lo, hi) == UNION {[1..n -> S] : n \in lo..hi}

\* str.lower() on the label names of the model
UpperNames == <<"A", "B", "C", "D", "LABEL_0", "LABEL_1", "LABEL_2", "LABEL_3">>
LowerNames == <<"a", "b", "c", "d", "label_0", "label_1", "label_2", "label_3">>
Lower(t) ==
  IF \E i \in DOMAIN UpperNames : UpperNames[i] = t
  THEN LowerNames[CHOOSE i \in DOMAIN UpperNames : UpperNames[i] = t]
  ELSE t

\* the order of Python strings (code points) on the names of the model
NameOrder == UpperNames \o LowerNames
Rank(t) == CHOOSE i \in DOMAIN NameOrder : NameOrder[i] = t
ValueLess(a, b) == IF a.k = "str" THEN Rank(a.s) < Rank(b.s) ELSE a.n < b.n

\* list.sort() / sorted(): selection of the least remaining element
RemoveAt(q, i) == SubSeq(q, 1, i - 1) \o SubSeq(q, i + 1, Len(q))
RECURSIVE SortedSeq(_)
SortedSeq(q) ==
  IF q = << >> THEN << >>
  ELSE LET m == CHOOSE i \in DOMAIN q : \A j \in DOMAIN q : ~ValueLess(q[j], q[i])
       IN <<q[m]>> \o SortedSeq(RemoveAt(q, m))

\* Dataset.unique(): the distinct values in order of first occurrence
RECURSIVE Unique(_)
Unique(q) ==
  IF q = << >> THEN << >>
  ELSE LET n == Len(q)
           u == Unique(SubSeq(q, 1, n - 1))
       IN IF q[n] \in Range(u) THEN u ELSE Append(u, q[n])

\* dict: insertion-ordered sequence of <<key, value>> with distinct keys
DictHas(d, key) == \E i \in DOMAIN d : d[i][1] = key
DictGet(d, key) == d[CHOOSE i \in DOMAIN d : d[i][1] = key][2]
DictPut(d, key, val) ==
  IF DictHas(d, key)
  THEN [i \in DOMAIN d |-> IF d[i][1] = key THEN <<key, val>> ELSE d[i]]
  ELSE Append(d, <<key, val>>)
RECURSIVE DictFrom(_)
DictFrom(items) ==
  IF items = << >> THEN << >>
  ELSE LET n == Len(items)
       IN DictPut(DictFrom(SubSeq(items, 1, n - 1)), items[n][1], items[n][2])
DictEq(d, e) == Range(d) = Range(e)

\* ------------------------------------------------------------------------
\* task_to_keys and the command line
\* ------------------------------------------------------------------------
task_to_keys == {"cola", "mnli", "mrpc", "qnli", "qqp", "rte", "sst2", "stsb", "wnli"}

\* str.lower() on the task names of the model
LowerTask(t) == IF t = "MNLI" THEN "mnli" ELSE IF t = "MRPC" THEN "mrpc" ELSE t

\* a file name is the list of its "."-separated components
NoFile == << >>
Extension(file) == file[Len(file)]
EndsWithCsv(file) == Len(file) >= 2 /\ file[Len(file)] = "csv"

SplitNames == {"train", "validation", "test", "validation_matched", "validation_mismatched",
               "test_matched", "test_mismatched"}
GlueSplits(task) ==
  IF task = "mnli"
  THEN {"train", "validation_matched", "validation_mismatched", "test_matched", "test_mismatched"}
  ELSE {"train", "validation", "test"}

VARIABLES
  data_args,        \* DataTrainingArguments
  training_args,    \* TrainingArguments
  world,            \* output directory, hub datasets / files, pretrained config
  pc,               \* the section of main() that runs next
  err,              \* the exception that ended the run and the section that raised it
  last_checkpoint,
  loaded,           \* NONE, or the source load_dataset was called with
  raw_labels,       \* label column of every split as loaded
  raw_datasets,     \* label column of every split, after map(preprocess_function)
  is_regression, label_list, num_labels,
  config,           \* [label2id, id2label] of the model config
  label_to_id,
  train_dataset, eval_dataset, predict_dataset,
  init_loader,      \* initializing_data_loader_cls and the loaders registered with nncf_config
  model,            \* "unbuilt", "pretrained", "trained"
  onnx_file,        \* NONE, or the state of the model that was exported
  phase,            \* per phase: "idle", "running", "finished"
  order,            \* the phases in the order they started
  train_checkpoint, \* the resume_from_checkpoint argument of trainer.train
  eval_passes,      \* per evaluation pass: task, split read, examples, eval_samples
  predict_files,    \* per prediction file opened: process, name, header, predictions, rows
  todo,             \* the (dataset, task) pairs the evaluation loop has still to visit
  predict_todo,     \* per process: the (dataset, task) pairs its prediction loop has still to visit
  log               \* what the logging calls of the label reconciliation left behind

vars == <<data_args, training_args, world, pc, err, last_checkpoint, loaded, raw_labels,
          raw_datasets, is_regression, label_list, num_labels, config, label_to_id,
          train_dataset, eval_dataset, predict_dataset, init_loader, model, onnx_file,
          phase, order, train_checkpoint, eval_passes, predict_files, todo,
          predict_todo, log>>

Phases == <<"train", "evaluate", "predict", "push_to_hub">>

\* an exception that is not caught ends the run
Raise(e) == /\ pc' = "error"
            /\ err' = [type |-> e, at |-> pc]
Goto(l) == /\ pc' = l
           /\ err' = err

\* ------------------------------------------------------------------------
\* DataTrainingArguments.__post_init__
\* ------------------------------------------------------------------------
\* variant: the validation file is only required to be a csv or a json file
PostInitErrorAnyExtension(args) ==
  IF args.task_name # NONE
  THEN IF LowerTask(args.task_name) \notin task_to_keys THEN "ValueError" ELSE NONE
  ELSE IF args.dataset_name # NONE THEN NONE
  ELSE IF args.train_file = NoFile \/ args.validation_file = NoFile THEN "ValueError"
  ELSE IF Extension(args.train_file) \notin {"csv", "json"} THEN "AssertionError"
  ELSE IF Extension(args.validation_file) \notin {"csv", "json"} THEN "AssertionError"
  ELSE NONE

\* the exception __post_init__ raises for these arguments, NONE if none
PostInitError(args) ==
  IF args.task_name # NONE
  THEN IF LowerTask(args.task_name) \notin task_to_keys THEN "ValueError" ELSE NONE
  ELSE IF args.dataset_name # NONE THEN NONE
  ELSE IF args.train_file = NoFile \/ args.validation_file = NoFile THEN "ValueError"
  ELSE IF Extension(args.train_file) \notin {"csv", "json"} THEN "AssertionError"
  ELSE IF Extension(args.validation_file) # Extension(args.train_file) THEN "AssertionError"
  ELSE NONE

PostInit ==
  /\ pc = "post_init"
  /\ data_args' = IF data_args.task_name # NONE
                  THEN [data_args EXCEPT !.task_name = LowerTask(data_args.task_name)]
                  ELSE data_args
  /\ IF PostInitError(data_args) # NONE
     THEN Raise(PostInitError(data_args))
     ELSE Goto("detect_checkpoint")
  /\ UNCHANGED <<training_args, world, last_checkpoint, loaded, raw_labels, raw_datasets,
                 is_regression, label_list, num_labels, config, label_to_id, train_dataset,
                 eval_dataset, predict_dataset, init_loader, model, onnx_file, phase, order,
                 train_checkpoint, eval_passes, predict_files, todo, predict_todo, log>>

\* ------------------------------------------------------------------------
\* main(): detecting the last checkpoint
\* ------------------------------------------------------------------------
\* os.path.isdir, os.listdir and get_last_checkpoint on the output directory
IsDir(dir) == dir # "absent"
ListDirNonEmpty(dir) == dir \in {"files", "checkpoint"}
get_last_checkpoint(dir) == IF dir = "checkpoint" THEN "checkpoint-1" ELSE NONE

\* variant: the overwrite flag is read without its negation
InspectsOutputDirOnOverwrite(targs, dir) ==
  IsDir(dir) /\ targs.do_train /\ targs.overwrite_output_dir

\* the condition under which the output directory is inspected
InspectsOutputDir(targs, dir) ==
  IsDir(dir) /\ targs.do_train /\ ~targs.overwrite_output_dir

DetectedCheckpoint(targs, dir) ==
  IF InspectsOutputDir(targs, dir) THEN get_last_checkpoint(dir) ELSE NONE

OutputDirError(targs, dir) ==
  IF InspectsOutputDir(targs, dir) /\ get_last_checkpoint(dir) = NONE /\ ListDirNonEmpty(dir)
  THEN "ValueError" ELSE NONE

DetectLastCheckpoint ==
  /\ pc = "detect_checkpoint"
  /\ last_checkpoint' = DetectedCheckpoint(training_args, world.out_dir)
  /\ IF OutputDirError(training_args, world.out_dir) # NONE
     THEN Raise("ValueError")
     ELSE Goto("load_dataset")
  /\ UNCHANGED <<data_args, training_args, world, loaded, raw_labels, raw_datasets,
                 is_regression, label_list, num_labels, config, label_to_id, train_dataset,
                 eval_dataset, predict_dataset, init_loader, model, onnx_file, phase, order,
                 train_checkpoint, eval_passes, predict_files, todo, predict_todo, log>>

\* ------------------------------------------------------------------------
\* main(): getting the datasets
\* ------------------------------------------------------------------------
\* variant: the files are looked at first, the task name last
DataSourceFilesFirst(args) ==
  IF args.train_file # NoFile THEN (IF EndsWithCsv(args.train_file) THEN "csv" ELSE "json")
  ELSE IF args.dataset_name # NONE THEN "hub"
  ELSE "glue"

\* the source load_dataset is called with
DataSource(args) ==
  IF args.task_name # NONE THEN "glue"
  ELSE IF args.dataset_name # NONE THEN "hub"
  ELSE IF EndsWithCsv(args.train_file) THEN "csv"
  ELSE "json"

\* the exception raised while the local data_files are collected, NONE if none
DataFilesError(args, targs) ==
  IF args.task_name # NONE \/ args.dataset_name # NONE THEN NONE
  ELSE IF ~targs.do_predict THEN NONE
  ELSE IF args.test_file = NoFile THEN "ValueError"
  ELSE IF Extension(args.test_file) # Extension(args.train_file) THEN "AssertionError"
  ELSE NONE

\* the splits of the loaded DatasetDict
LoadedSplits(args, targs, w) ==
  IF args.task_name # NONE THEN GlueSplits(args.task_name)
  ELSE IF args.dataset_name # NONE THEN w.hub_splits
  ELSE {"train", "validation"} \cup (IF targs.do_predict THEN {"test"} ELSE {})

LoadRawDatasets ==
  /\ pc = "load_dataset"
  /\ IF DataFilesError(data_args, training_args) # NONE
     THEN /\ Raise(DataFilesError(data_args, training_args))
          /\ UNCHANGED <<loaded, raw_labels>>
     ELSE /\ Goto("labels")
          /\ loaded' = DataSource(data_args)
          /\ raw_labels' = [sp \in LoadedSplits(data_args, training_args, world) |->
                              world.splits[sp]]
  /\ UNCHANGED <<data_args, training_args, world, last_checkpoint, raw_datasets,
                 is_regression, label_list, num_labels, config, label_to_id, train_dataset,
                 eval_dataset, predict_dataset, init_loader, model, onnx_file, phase, order,
                 train_checkpoint, eval_passes, predict_files, todo, predict_todo, log>>

\* ------------------------------------------------------------------------
\* main(): labels
\* ------------------------------------------------------------------------
IsRegression(args, w) ==
  IF args.task_name # NONE THEN args.task_name = "stsb"
  ELSE w.dtype \in {"float32", "float64"}

\* label_list; it stays unassigned (<< >> here) for a regression run
LabelList(args, w, labels) ==
  IF IsRegression(args, w) THEN << >>
  ELSE IF args.task_name # NONE THEN [i \in DOMAIN w.names |-> StrV(w.names[i])]
  ELSE SortedSeq(Unique(labels["train"]))

NumLabels(args, w, labels) ==
  IF IsRegression(args, w) THEN 1 ELSE Len(LabelList(args, w, labels))

Labels ==
  /\ pc = "labels"
  /\ IF "train" \notin DOMAIN raw_labels
     THEN /\ Raise("KeyError")
          /\ UNCHANGED <<is_regression, label_list, num_labels>>
     ELSE /\ Goto("config")
          /\ is_regression' = IsRegression(data_args, world)
          /\ label_list' = LabelList(data_args, world, raw_labels)
          /\ num_labels' = NumLabels(data_args, world, raw_labels)
  /\ UNCHANGED <<data_args, training_args, world, last_checkpoint, loaded, raw_labels,
                 raw_datasets, config, label_to_id, train_dataset,
                 eval_dataset, predict_dataset, init_loader, model, onnx_file, phase, order,
                 train_checkpoint, eval_passes, predict_files, todo, predict_todo, log>>

\* ------------------------------------------------------------------------
\* main(): the model config and the label reconciliation
\* ------------------------------------------------------------------------
LabelName(i) == CASE i = 0 -> "LABEL_0" [] i = 1 -> "LABEL_1" [] i = 2 -> "LABEL_2"
                  [] OTHER -> "LABEL_3"

\* PretrainedConfig(num_labels=n).label2id and .id2label
DefaultLabel2Id(n) == [i \in 1..n |-> <<StrV(LabelName(i - 1)), i - 1>>]
DefaultId2Label(n) == [i \in 1..n |-> <<i - 1, StrV(LabelName(i - 1))>>]

\* {id: label for label, id in label2id.items()}
InvertDict(d) == DictFrom([i \in DOMAIN d |-> <<d[i][2], d[i][1]>>])

\* AutoConfig.from_pretrained(..., num_labels=n): the mapping stored with the
\* checkpoint is kept when it has n labels, else the default one is installed
PretrainedConfig(pre, n) ==
  IF Len(pre) = n
  THEN [label2id |-> pre, id2label |-> InvertDict(pre)]
  ELSE [label2id |-> DefaultLabel2Id(n), id2label |-> DefaultId2Label(n)]

LoadConfig ==
  /\ pc = "config"
  /\ config' = PretrainedConfig(world.pretrained_label2id, num_labels)
  /\ Goto("reconcile")
  /\ UNCHANGED <<data_args, training_args, world, last_checkpoint, loaded, raw_labels,
                 raw_datasets, is_regression, label_list, num_labels, label_to_id,
                 train_dataset, eval_dataset, predict_dataset, init_loader, model, onnx_file,
                 phase, order, train_checkpoint, eval_passes, predict_files, todo, predict_todo,
                 log>>

\* {k.lower(): v for k, v in config.label2id.items()}
LabelNameToId(label2id) ==
  DictFrom([i \in DOMAIN label2id |-> <<StrV(Lower(label2id[i][1].s)), label2id[i][2]>>])

\* variant: the names of the model config are compared as they are spelled
NamesMatchCaseSensitive(label2id, labels) ==
  SortedSeq([i \in DOMAIN label2id |-> label2id[i][1]]) = SortedSeq(labels)

\* list(sorted(label_name_to_id.keys())) == list(sorted(label_list))
NamesMatch(label2id, labels) ==
  LET name_to_id == LabelNameToId(label2id)
  IN SortedSeq([i \in DOMAIN name_to_id |-> name_to_id[i][1]]) = SortedSeq(labels)

\* the branch that looks at the label mapping of the model config
UsesModelLabels(args, regression, label2id, n) ==
  /\ ~DictEq(label2id, DefaultLabel2Id(n))
  /\ args.task_name # NONE
  /\ ~regression

\* label_to_id: None, or the dict that preprocess_function remaps labels with
LabelToId(args, regression, label2id, labels, n) ==
  IF UsesModelLabels(args, regression, label2id, n)
  THEN IF NamesMatch(label2id, labels)
       THEN Some([i \in 1..n |-> <<IntV(i - 1), DictGet(LabelNameToId(label2id), labels[i])>>])
       ELSE None
  ELSE IF args.task_name = NONE /\ ~regression
  THEN Some([i \in DOMAIN labels |-> <<labels[i], i - 1>>])
  ELSE None

\* the warning of the mismatch branch
WarnsMismatch(args, regression, label2id, labels, n) ==
  UsesModelLabels(args, regression, label2id, n) /\ ~NamesMatch(label2id, labels)

\* config.label2id and config.id2label after the reconciliation
ReconciledConfig(cfg, l2i) ==
  IF IsNone(l2i) THEN cfg
  ELSE [label2id |-> Get(l2i), id2label |-> InvertDict(Get(l2i))]

\* logger.warning(msg, *args) of the mismatch branch: the two string
\* literals are separated by a comma, so the second one is passed as an
\* argument of a message that has no placeholder
MismatchWarning == [level |-> "WARNING", placeholders |-> 0, args |-> 1]

\* LogRecord.getMessage: msg % args, applied when there are arguments,
\* raises TypeError unless every argument has its placeholder
GetMessageFails(record) == record.args > 0 /\ record.args # record.placeholders

\* a handler emits the formatted record; when formatting raises, the handler
\* reports a logging error on stderr instead and the caller continues
Emit(records, record) ==
  Append(records,
         IF GetMessageFails(record)
         THEN [stream |-> "stderr", entry |-> "Logging error"]
         ELSE [stream |-> "log", entry |-> record.level])

Reconcile ==
  /\ pc = "reconcile"
  /\ label_to_id' = LabelToId(data_args, is_regression, config.label2id, label_list, num_labels)
  /\ config' = ReconciledConfig(config, label_to_id')
  /\ log' = IF WarnsMismatch(data_args, is_regression, config.label2id, label_list, num_labels)
            THEN Emit(log, MismatchWarning)
            ELSE log
  /\ Goto("preprocess")
  /\ UNCHANGED <<data_args, training_args, world, last_checkpoint, loaded, raw_labels,
                 raw_datasets, is_regression, label_list, num_labels,
                 train_dataset, eval_dataset, predict_dataset, init_loader, model, onnx_file,
                 phase, order, train_checkpoint, eval_passes, predict_files, todo, predict_todo>>

\* ------------------------------------------------------------------------
\* preprocess_function and raw_datasets.map
\* ------------------------------------------------------------------------
\* l != -1
IsSentinel(l) == l.k \in {"int", "float"} /\ l.n = -1

\* label_to_id[l] raises KeyError
MissingLabel(l, l2i) == ~IsNone(l2i) /\ ~IsSentinel(l) /\ ~DictHas(Get(l2i), l)

\* variant: label_to_id.get(l, 0) for every label, the sentinel included
PreprocessLabelNoSentinel(l, l2i) ==
  IF IsNone(l2i) THEN l
  ELSE IF DictHas(Get(l2i), l) THEN IntV(DictGet(Get(l2i), l))
  ELSE IntV(0)

\* the label of one example in the result of preprocess_function
PreprocessLabel(l, l2i) ==
  IF IsNone(l2i) THEN l
  ELSE IF IsSentinel(l) THEN Sentinel
  ELSE IntV(DictGet(Get(l2i), l))

\* raw_datasets.map(preprocess_function) over every split; every split of
\* the model has a label column
Preprocess ==
  /\ pc = "preprocess"
  /\ IF \E sp \in DOMAIN raw_labels : \E i \in DOMAIN raw_labels[sp] :
            MissingLabel(raw_labels[sp][i], label_to_id)
     THEN /\ Raise("KeyError")
          /\ UNCHANGED raw_datasets
     ELSE /\ Goto("select_train")
          /\ raw_datasets' = [sp \in DOMAIN raw_labels |->
                                [i \in DOMAIN raw_labels[sp] |->
                                   PreprocessLabel(raw_labels[sp][i], label_to_id)]]
  /\ UNCHANGED <<data_args, training_args, world, last_checkpoint, loaded, raw_labels,
                 is_regression, label_list, num_labels, config, label_to_id,
                 train_dataset, eval_dataset, predict_dataset, init_loader, model, onnx_file,
                 phase, order, train_checkpoint, eval_passes, predict_files, todo, predict_todo,
                 log>>

\* ------------------------------------------------------------------------
\* main(): the train and the evaluation dataset
\* ------------------------------------------------------------------------
\* dataset.select(range(max_samples)) raises IndexError
SelectFails(ds, max_samples) == ~IsNone(max_samples) /\ Get(max_samples) > Len(ds)
Select(ds, max_samples) ==
  IF IsNone(max_samples) THEN ds ELSE SubSeq(ds, 1, Get(max_samples))

Dataset(split, rows) == Some([split |-> split, labels |-> rows])

SelectTrain ==
  /\ pc = "select_train"
  /\ IF ~training_args.do_train
     THEN Goto("select_eval") /\ UNCHANGED train_dataset
     ELSE IF "train" \notin DOMAIN raw_datasets
     THEN Raise("ValueError") /\ UNCHANGED train_dataset
     ELSE IF SelectFails(raw_datasets["train"], data_args.max_train_samples)
     THEN Raise("IndexError") /\ UNCHANGED train_dataset
     ELSE /\ Goto("select_eval")
          /\ train_dataset' = Dataset("train",
                                 Select(raw_datasets["train"], data_args.max_train_samples))
  /\ UNCHANGED <<data_args, training_args, world, last_checkpoint, loaded, raw_labels,
                 raw_datasets, is_regression, label_list, num_labels, config, label_to_id,
                 eval_dataset, predict_dataset, init_loader, model, onnx_file,
                 phase, order, train_checkpoint, eval_passes, predict_files, todo, predict_todo,
                 log>>

\* the split that do_eval evaluates first
EvalSplit(args) == IF args.task_name = "mnli" THEN "validation_matched" ELSE "validation"

\* the exception raised while the evaluation dataset is taken, NONE if none
EvalDatasetError(args, splits) ==
  IF "validation" \notin splits /\ "validation_matched" \notin splits THEN "ValueError"
  ELSE IF EvalSplit(args) \notin splits THEN "KeyError"
  ELSE NONE

\* variant: the validation split is not looked at before the evaluation phase
SelectEvalUnchecked ==
  /\ pc = "select_eval"
  /\ Goto("nncf")
  /\ UNCHANGED <<data_args, training_args, world, last_checkpoint, loaded, raw_labels,
                 raw_datasets, is_regression, label_list, num_labels, config, label_to_id,
                 train_dataset, eval_dataset, predict_dataset, init_loader, model, onnx_file,
                 phase, order, train_checkpoint, eval_passes, predict_files, todo, predict_todo,
                 log>>

SelectEval ==
  /\ pc = "select_eval"
  /\ IF ~training_args.do_eval
     THEN Goto("nncf") /\ UNCHANGED eval_dataset
     ELSE IF EvalDatasetError(data_args, DOMAIN raw_datasets) # NONE
     THEN Raise(EvalDatasetError(data_args, DOMAIN raw_datasets)) /\ UNCHANGED eval_dataset
     ELSE IF SelectFails(raw_datasets[EvalSplit(data_args)], data_args.max_eval_samples)
     THEN Raise("IndexError") /\ UNCHANGED eval_dataset
     ELSE /\ Goto("nncf")
          /\ eval_dataset' = Dataset(EvalSplit(data_args),
                                Select(raw_datasets[EvalSplit(data_args)],
                                       data_args.max_eval_samples))
  /\ UNCHANGED <<data_args, training_args, world, last_checkpoint, loaded, raw_labels,
                 raw_datasets, is_regression, label_list, num_labels, config, label_to_id,
                 train_dataset, predict_dataset, init_loader, model, onnx_file,
                 phase, order, train_checkpoint, eval_passes, predict_files, todo, predict_todo,
                 log>>

\* ------------------------------------------------------------------------
\* main(): compression set-up, model construction, export
\* ------------------------------------------------------------------------
\* initializing_data_loader_cls; NONE when no branch assigns it
InitializingDataLoaderCls(task) ==
  IF task = "sst2" THEN "SST2InitializingDataLoader"
  ELSE IF task = "mrpc" THEN "MRPCInitializingDataLoader"
  ELSE IF task = "mnli" THEN "MNLIInitializingDataLoader"
  ELSE NONE

\* the data loaders wrapped and registered with nncf_config, in order
RegisteredLoaders(targs) ==
  (IF targs.do_train THEN <<"train">> ELSE << >>) \o
  (IF targs.do_eval THEN <<"eval">> ELSE << >>)

NncfSetup ==
  /\ pc = "nncf"
  /\ IF ~training_args.nncf_config
     THEN Goto("from_pretrained") /\ UNCHANGED init_loader
     ELSE IF /\ RegisteredLoaders(training_args) # << >>
             /\ InitializingDataLoaderCls(data_args.task_name) = NONE
     THEN /\ Raise("UnboundLocalError")
          /\ UNCHANGED init_loader
     ELSE /\ Goto("from_pretrained")
          /\ init_loader' = [cls |-> InitializingDataLoaderCls(data_args.task_name),
                              registered |-> RegisteredLoaders(training_args)]
  /\ UNCHANGED <<data_args, training_args, world, last_checkpoint, loaded, raw_labels,
                 raw_datasets, is_regression, label_list, num_labels, config, label_to_id,
                 train_dataset, eval_dataset, predict_dataset, model, onnx_file,
                 phase, order, train_checkpoint, eval_passes, predict_files, todo, predict_todo,
                 log>>

FromPretrained ==
  /\ pc = "from_pretrained"
  /\ model' = "pretrained"
  /\ Goto("export")
  /\ UNCHANGED <<data_args, training_args, world, last_checkpoint, loaded, raw_labels,
                 raw_datasets, is_regression, label_list, num_labels, config, label_to_id,
                 train_dataset, eval_dataset, predict_dataset, init_loader, onnx_file,
                 phase, order, train_checkpoint, eval_passes, predict_files, todo, predict_todo,
                 log>>

\* what the export writes: the weights the model has when the export runs
ExportedModel(m, targs) ==
  [weights |-> m,
   by |-> IF targs.nncf_config THEN "compression_ctrl.export_model" ELSE "onnx.export"]

Export ==
  /\ pc = "export"
  /\ onnx_file' = IF training_args.to_onnx
                  THEN Some(ExportedModel(model, training_args))
                  ELSE onnx_file
  /\ Goto("select_predict")
  /\ UNCHANGED <<data_args, training_args, world, last_checkpoint, loaded, raw_labels,
                 raw_datasets, is_regression, label_list, num_labels, config, label_to_id,
                 train_dataset, eval_dataset, predict_dataset, init_loader, model,
                 phase, order, train_checkpoint, eval_passes, predict_files, todo, predict_todo,
                 log>>

\* ------------------------------------------------------------------------
\* main(): the prediction dataset, the trainer
\* ------------------------------------------------------------------------
TakesPredictDataset(args, targs) ==
  targs.do_predict \/ args.task_name # NONE \/ args.test_file # NoFile

PredictSplit(args) == IF args.task_name = "mnli" THEN "test_matched" ELSE "test"

PredictDatasetError(args, splits) ==
  IF "test" \notin splits /\ "test_matched" \notin splits THEN "ValueError"
  ELSE IF PredictSplit(args) \notin splits THEN "KeyError"
  ELSE NONE

SelectPredict ==
  /\ pc = "select_predict"
  /\ IF ~TakesPredictDataset(data_args, training_args)
     THEN Goto("trainer") /\ UNCHANGED predict_dataset
     ELSE IF PredictDatasetError(data_args, DOMAIN raw_datasets) # NONE
     THEN Raise(PredictDatasetError(data_args, DOMAIN raw_datasets))
          /\ UNCHANGED predict_dataset
     ELSE IF SelectFails(raw_datasets[PredictSplit(data_args)], data_args.max_predict_samples)
     THEN Raise("IndexError") /\ UNCHANGED predict_dataset
     ELSE /\ Goto("trainer")
          /\ predict_dataset' = Dataset(PredictSplit(data_args),
                                   Select(raw_datasets[PredictSplit(data_args)],
                                          data_args.max_predict_samples))
  /\ UNCHANGED <<data_args, training_args, world, last_checkpoint, loaded, raw_labels,
                 raw_datasets, is_regression, label_list, num_labels, config, label_to_id,
                 train_dataset, eval_dataset, init_loader, model, onnx_file,
                 phase, order, train_checkpoint, eval_passes, predict_files, todo, predict_todo,
                 log>>

\* random.sample(range(len(train_dataset)), 3)
SampleSize == 3

\* logging of the samples, load_metric, Trainer(...)
BuildTrainer ==
  /\ pc = "trainer"
  /\ IF training_args.do_train /\ Len(Get(train_dataset).labels) < SampleSize
     THEN Raise("ValueError")
     ELSE Goto("train")
  /\ UNCHANGED <<data_args, training_args, world, last_checkpoint, loaded, raw_labels,
                 raw_datasets, is_regression, label_list, num_labels, config, label_to_id,
                 train_dataset, eval_dataset, predict_dataset, init_loader, model, onnx_file,
                 phase, order, train_checkpoint, eval_passes, predict_files, todo, predict_todo,
                 log>>

\* ------------------------------------------------------------------------
\* main(): training, evaluation, prediction, push to hub
\* ------------------------------------------------------------------------
\* variant: the push to the hub is gated by the prediction flag
PhaseFlagPushOnPredict(targs, p) ==
  CASE p = "train" -> targs.do_train
    [] p = "evaluate" -> targs.do_eval
    [] p = "predict" -> targs.do_predict
    [] p = "push_to_hub" -> targs.do_predict

\* the flag that gates a phase
PhaseFlag(targs, p) ==
  CASE p = "train" -> targs.do_train
    [] p = "evaluate" -> targs.do_eval
    [] p = "predict" -> targs.do_predict
    [] p = "push_to_hub" -> targs.push_to_hub

Start(p) == /\ phase' = [phase EXCEPT ![p] = "running"]
            /\ order' = Append(order, p)
Finish(p) == /\ phase' = [phase EXCEPT ![p] = "finished"]
             /\ order' = order

\* variant: the detected checkpoint is preferred to the given one
TrainCheckpointDetectedFirst(targs, last) ==
  IF last # NONE THEN last
  ELSE IF targs.resume_from_checkpoint # NONE THEN targs.resume_from_checkpoint
  ELSE NONE

\* the checkpoint passed to trainer.train
TrainCheckpoint(targs, last) ==
  IF targs.resume_from_checkpoint # NONE THEN targs.resume_from_checkpoint
  ELSE IF last # NONE THEN last
  ELSE NONE

Train ==
  /\ pc = "train"
  /\ IF PhaseFlag(training_args, "train")
     THEN /\ Start("train")
          /\ train_checkpoint' = Some(TrainCheckpoint(training_args, last_checkpoint))
          /\ model' = "trained"
          /\ Goto("train_save")
     ELSE /\ Goto("evaluate")
          /\ UNCHANGED <<phase, order, train_checkpoint, model>>
  /\ UNCHANGED <<data_args, training_args, world, last_checkpoint, loaded, raw_labels,
                 raw_datasets, is_regression, label_list, num_labels, config, label_to_id,
                 train_dataset, eval_dataset, predict_dataset, init_loader, onnx_file,
                 eval_passes, predict_files, todo, predict_todo, log>>

\* train metrics, trainer.save_model, save_metrics, save_state
TrainSave ==
  /\ pc = "train_save"
  /\ Finish("train")
  /\ Goto("evaluate")
  /\ UNCHANGED <<data_args, training_args, world, last_checkpoint, loaded, raw_labels,
                 raw_datasets, is_regression, label_list, num_labels, config, label_to_id,
                 train_dataset, eval_dataset, predict_dataset, init_loader, model, onnx_file,
                 train_checkpoint, eval_passes, predict_files, todo, predict_todo, log>>

\* variant: no second pass for mnli
PassesSingle(args, first, second_split, datasets) ==
  <<[task |-> args.task_name, ds |-> first]>>

\* zip(eval_datasets, tasks) / zip(predict_datasets, tasks)
Passes(args, first, second_split, datasets) ==
  <<[task |-> args.task_name, ds |-> first]>> \o
  (IF args.task_name = "mnli"
   THEN <<[task |-> "mnli-mm",
           ds |-> [split |-> second_split, labels |-> datasets[second_split]]]>>
   ELSE << >>)

EvalBegin ==
  /\ pc = "evaluate"
  /\ IF ~PhaseFlag(training_args, "evaluate")
     THEN Goto("predict") /\ UNCHANGED <<phase, order, todo>>
     ELSE IF data_args.task_name = "mnli" /\ "validation_mismatched" \notin DOMAIN raw_datasets
     THEN Raise("KeyError") /\ UNCHANGED <<phase, order, todo>>
     ELSE /\ Start("evaluate")
          /\ todo' = Passes(data_args, Get(eval_dataset), "validation_mismatched", raw_datasets)
          /\ Goto("eval_loop")
  /\ UNCHANGED <<data_args, training_args, world, last_checkpoint, loaded, raw_labels,
                 raw_datasets, is_regression, label_list, num_labels, config, label_to_id,
                 train_dataset, eval_dataset, predict_dataset, init_loader, model, onnx_file,
                 train_checkpoint, eval_passes, predict_files, predict_todo, log>>

Min(a, b) == IF a < b THEN a ELSE b

\* metrics["eval_samples"]
EvalSamples(args, ds) ==
  Min(IF IsNone(args.max_eval_samples) THEN Len(ds.labels) ELSE Get(args.max_eval_samples),
      Len(ds.labels))

\* one iteration of the evaluation loop
EvalPass ==
  /\ pc = "eval_loop"
  /\ todo # << >>
  /\ eval_dataset' = Some(Head(todo).ds)
  /\ eval_passes' = Append(eval_passes,
                       [task |-> Head(todo).task,
                        split |-> Head(todo).ds.split,
                        examples |-> Len(Head(todo).ds.labels),
                        eval_samples |-> EvalSamples(data_args, Head(todo).ds)])
  /\ todo' = Tail(todo)
  /\ IF Tail(todo) = << >>
     THEN Finish("evaluate") /\ Goto("predict")
     ELSE UNCHANGED <<phase, order>> /\ Goto("eval_loop")
  /\ UNCHANGED <<data_args, training_args, world, last_checkpoint, loaded, raw_labels,
                 raw_datasets, is_regression, label_list, num_labels, config, label_to_id,
                 train_dataset, predict_dataset, init_loader, model, onnx_file,
                 train_checkpoint, predict_files, predict_todo, log>>

\* the processes of the run, by training_args.process_index
Ranks(w) == 0..(w.world_size - 1)

PredictBegin ==
  /\ pc = "predict"
  /\ IF ~PhaseFlag(training_args, "predict")
     THEN Goto("push_to_hub") /\ UNCHANGED <<phase, order, predict_todo>>
     ELSE IF data_args.task_name = "mnli" /\ "test_mismatched" \notin DOMAIN raw_datasets
     THEN Raise("KeyError") /\ UNCHANGED <<phase, order, predict_todo>>
     ELSE /\ Start("predict")
          /\ predict_todo' = [p \in Ranks(world) |->
                                Passes(data_args, Get(predict_dataset), "test_mismatched",
                                       raw_datasets)]
          /\ Goto("predict_loop")
  /\ UNCHANGED <<data_args, training_args, world, last_checkpoint, loaded, raw_labels,
                 raw_datasets, is_regression, label_list, num_labels, config, label_to_id,
                 train_dataset, eval_dataset, predict_dataset, init_loader, model, onnx_file,
                 train_checkpoint, eval_passes, predict_files, todo, log>>

\* the outputs trainer.predict can give for one example, after squeeze / argmax:
\* a class id, or for a regression a score in units of 1/10000
RegressionScores == {FloatV(0), FloatV(12344), FloatV(-4996)}
PossiblePredictions(regression, n) ==
  IF regression THEN RegressionScores ELSE {IntV(c) : c \in 0..(n - 1)}

Abs(i) == IF i < 0 THEN -i ELSE i

\* variant: the score is written with two fractional digits
Format2(item) ==
  LET hundredths == (Abs(item.n) + 50) \div 100
  IN [k |-> "decimal", neg |-> item.n < 0, whole |-> hundredths \div 100,
      frac |-> <<(hundredths \div 10) % 10, hundredths % 10>>]

\* f"{item:3.3f}": sign, integer part and the fractional digits of the score
\* rounded to thousandths
Format3(item) ==
  LET thousandths == (Abs(item.n) + 5) \div 10
  IN [k |-> "decimal", neg |-> item.n < 0, whole |-> thousandths \div 1000,
      frac |-> <<(thousandths \div 100) % 10, (thousandths \div 10) % 10,
                 thousandths % 10>>]

\* the prediction column of one row of the prediction file
PredictionText(item, regression, labels) ==
  IF regression THEN Format3(item) ELSE labels[item.n + 1]

\* np.squeeze of the (n, 1) regression output of a single example is 0-d
\* and cannot be iterated
EnumerateFails(regression, predictions) == regression /\ Len(predictions) = 1

\* str(task) in an f-string
FormatTask(task) == IF task = NONE THEN "None" ELSE task

\* os.path.join(training_args.output_dir, f"predict_results_{task}.txt")
OutputPredictFile(task) == <<"output_dir", "predict_results_", FormatTask(task), ".txt">>

\* writer.write("index\tprediction\n")
Header == <<"index", "prediction">>

\* trainer.is_world_process_zero()
IsWorldProcessZero(p) == p = 0

\* variant: the file is written without asking which process runs
OpensPredictFileUnguarded(p) == TRUE

\* whether process p opens the prediction file of a pass
OpensPredictFile(p) == IsWorldProcessZero(p)

\* the rows the loop over enumerate(predictions) writes
Rows(predictions, regression, labels) ==
  [i \in DOMAIN predictions |-> <<i - 1, PredictionText(predictions[i], regression, labels)>>]

\* the file a pass leaves behind; the header is written before the
\* predictions are enumerated
PredictFile(p, pass, predictions, regression, labels) ==
  [process |-> p, task |-> pass.task, file |-> OutputPredictFile(pass.task),
   examples |-> Len(pass.ds.labels), header |-> Header, predictions |-> predictions,
   rows |-> IF EnumerateFails(regression, predictions) THEN << >>
            ELSE Rows(predictions, regression, labels)]

\* one iteration of the prediction loop of one of the processes
PredictPass ==
  \E p \in Ranks(world) :
    /\ pc = "predict_loop"
    /\ predict_todo[p] # << >>
    /\ predict_dataset' = IF p = 0 THEN Some(Head(predict_todo[p]).ds) ELSE predict_dataset
    /\ \E predictions \in [DOMAIN Head(predict_todo[p]).ds.labels ->
                              PossiblePredictions(is_regression, num_labels)] :
         /\ predict_files' = IF OpensPredictFile(p)
                             THEN Append(predict_files,
                                         PredictFile(p, Head(predict_todo[p]), predictions,
                                                     is_regression, label_list))
                             ELSE predict_files
         /\ IF OpensPredictFile(p) /\ EnumerateFails(is_regression, predictions)
            THEN /\ Raise("TypeError")
                 /\ UNCHANGED <<predict_todo, phase, order>>
            ELSE /\ predict_todo' = [predict_todo EXCEPT ![p] = Tail(@)]
                 /\ IF \A q \in DOMAIN predict_todo : predict_todo'[q] = << >>
                    THEN Finish("predict") /\ Goto("push_to_hub")
                    ELSE UNCHANGED <<phase, order>> /\ Goto("predict_loop")
    /\ UNCHANGED <<data_args, training_args, world, last_checkpoint, loaded, raw_labels,
                   raw_datasets, is_regression, label_list, num_labels, config, label_to_id,
                   train_dataset, eval_dataset, init_loader, model, onnx_file,
                   train_checkpoint, eval_passes, todo, log>>

PushToHub ==
  /\ pc = "push_to_hub"
  /\ IF PhaseFlag(training_args, "push_to_hub")
     THEN phase' = [phase EXCEPT !["push_to_hub"] = "finished"]
          /\ order' = Append(order, "push_to_hub")
     ELSE UNCHANGED <<phase, order>>
  /\ Goto("done")
  /\ UNCHANGED <<data_args, training_args, world, last_checkpoint, loaded, raw_labels,
                 raw_datasets, is_regression, label_list, num_labels, config, label_to_id,
                 train_dataset, eval_dataset, predict_dataset, init_loader, model, onnx_file,
                 train_checkpoint, eval_passes, predict_files, todo, predict_todo, log>>

Next ==
  \/ PostInit
  \/ DetectLastCheckpoint
  \/ LoadRawDatasets
  \/ Labels
  \/ LoadConfig
  \/ Reconcile
  \/ Preprocess
  \/ SelectTrain
  \/ SelectEval
  \/ NncfSetup
  \/ FromPretrained
  \/ Export
  \/ SelectPredict
  \/ BuildTrainer
  \/ Train
  \/ TrainSave
  \/ EvalBegin
  \/ EvalPass
  \/ PredictBegin
  \/ PredictPass
  \/ PushToHub

\* ------------------------------------------------------------------------
\* The invocations of the model: command line, file system, datasets and
\* pretrained config
\* ------------------------------------------------------------------------
DArgs(task, dataset, train_file, validation_file, test_file, max_eval) ==
  [task_name |-> task, dataset_name |-> dataset, train_file |-> train_file,
   validation_file |-> validation_file, test_file |-> test_file,
   max_train_samples |-> None, max_eval_samples |-> max_eval, max_predict_samples |-> None]

TArgs(tr, ev, pr, push, onnx, nncf, overwrite, resume) ==
  [do_train |-> tr, do_eval |-> ev, do_predict |-> pr, push_to_hub |-> push,
   to_onnx |-> onnx, nncf_config |-> nncf, overwrite_output_dir |-> overwrite,
   resume_from_checkpoint |-> resume]

SplitContents(tr, va, te) ==
  [sp \in SplitNames |->
     IF sp = "train" THEN tr
     ELSE IF sp \in {"validation", "validation_matched", "validation_mismatched"} THEN va
     ELSE te]

World(dir, hub_splits, tr, va, te, names, dtype, pre) ==
  [out_dir |-> dir, hub_splits |-> hub_splits, splits |-> SplitContents(tr, va, te),
   names |-> names, dtype |-> dtype, pretrained_label2id |-> pre, world_size |-> 1]

Ints(S) == {IntV(i) : i \in S}
Strs(S) == {StrV(t) : t \in S}
Repeat(v, n) == [i \in 1..n |-> v]
Permutations_(n) == InjectiveSeqs(0..(n - 1), n)

\* the ClassLabel names of a GLUE task are lower-case
LowerLetters == {"a", "b", "c"}
KeyNames == <<"A", "B", "C", "a", "b", "c">>

\* label2id mappings a pretrained checkpoint can carry: none (<< >>), or n
\* names with the ids 0..n-1 in some order
PretrainedMappings(n) ==
  {<< >>} \cup
  {[i \in 1..n |-> <<StrV(KeyNames[ks[i]]), ids[i]>>] :
     ks \in {q \in [1..n -> DOMAIN KeyNames] : \A i \in 1..(n - 1) : q[i] < q[i + 1]},
     ids \in Permutations_(n)}

TrainFile == <<"train", "csv">>
ValidationFile == <<"dev", "csv">>
TestFile == <<"test", "csv">>

\* a plain world: two classes, no label mapping in the checkpoint
PlainTrain(len) == [i \in 1..len |-> IntV(i % 2)]
PlainWorld(task, dir, hub_splits, train_len) ==
  IF task = "stsb"
  THEN World(dir, hub_splits, [i \in 1..train_len |-> FloatV(i * 10000)],
             Repeat(FloatV(20000), MaxExamples + 1), Repeat(FloatV(-1), MaxExamples + 1),
             << >>, "float32", << >>)
  ELSE World(dir, hub_splits, PlainTrain(train_len), Repeat(IntV(1), MaxExamples),
             Repeat(Sentinel, MaxExamples), <<"a", "b">>,
             IF task = NONE THEN "int64" ELSE "classlabel", << >>)

NoFiles(task, dataset) == DArgs(task, dataset, NoFile, NoFile, NoFile, None)

\* phases, export and compression over the data sources
FlagRuns ==
  LET targs == {TArgs(tr, ev, pr, push, onnx, nncf, FALSE, NONE) :
                  tr \in BOOLEAN, ev \in BOOLEAN, pr \in BOOLEAN, push \in BOOLEAN,
                  onnx \in BOOLEAN, nncf \in BOOLEAN}
      glue == {<<NoFiles(t, NONE), PlainWorld(t, "absent", {}, SampleSize)>> :
                 t \in {"mnli", "mrpc", "stsb", "cola"}}
      hub == {<<NoFiles(NONE, "imdb"), PlainWorld(NONE, "absent", sp, SampleSize)>> :
                sp \in {S \cup {"train"} : S \in SUBSET {"validation", "test", "validation_matched"}}
                       \cup {{"validation", "test"}}}
      local == {<<DArgs(NONE, NONE, TrainFile, ValidationFile, tf, None),
                  PlainWorld(NONE, "absent", {}, SampleSize)>> : tf \in {NoFile, TestFile}}
  IN {<<dw[1], ta, dw[2]>> : dw \in glue \cup hub \cup local, ta \in targs}

\* the output directory, the size of the train split, max_eval_samples
DirRuns ==
  {<<DArgs(t, NONE, NoFile, NoFile, NoFile, me),
     TArgs(tr, TRUE, FALSE, FALSE, FALSE, FALSE, ow, resume),
     PlainWorld(t, dir, {}, len)>> :
     t \in {"mrpc", "mnli"}, me \in {None, Some(1), Some(MaxExamples + 1)},
     tr \in BOOLEAN, ow \in BOOLEAN, resume \in {NONE, "user-checkpoint"},
     dir \in {"absent", "empty", "files", "checkpoint"},
     len \in {SampleSize - 1, SampleSize}}

\* the data arguments
ArgRuns ==
  {<<DArgs(t, d, trf, vf, tf, None),
     TArgs(FALSE, TRUE, pr, FALSE, FALSE, FALSE, FALSE, NONE),
     PlainWorld(LowerTask(t), "absent", {"train", "validation", "test"}, SampleSize)>> :
     t \in {NONE, "MRPC", "squad"}, d \in {NONE, "imdb"},
     trf \in {NoFile, <<"train", "csv">>, <<"train", "json">>, <<"train", "txt">>, <<"csv">>},
     vf \in {NoFile, <<"dev", "csv">>, <<"dev", "json">>},
     tf \in {NoFile, <<"test", "csv">>, <<"test", "json">>},
     pr \in BOOLEAN}

\* the label vocabularies, pretrained label mappings and label columns; the
\* rows of a train split are labelled, -1 marks the unlabelled rows of the
\* other splits
LabelTArgs == TArgs(FALSE, TRUE, TRUE, FALSE, FALSE, FALSE, FALSE, NONE)
GlueLabelRuns ==
  UNION {
    {<<NoFiles("mrpc", NONE), LabelTArgs,
       World("absent", {}, [i \in 1..n |-> IntV(i - 1)], Repeat(IntV(v), MaxExamples),
             Repeat(Sentinel, MaxExamples), names, "classlabel", pre)>> :
       names \in InjectiveSeqs(LowerLetters, n),
       pre \in PretrainedMappings(n) \cup {DefaultLabel2Id(n + 1)},
       v \in 0..(n - 1)} : n \in 2..MaxLabels}

LocalLabelRuns ==
  UNION {
    {<<IF dt[1] = "string" THEN NoFiles(NONE, "imdb")
       ELSE DArgs(NONE, NONE, TrainFile, ValidationFile, TestFile, None),
       LabelTArgs,
       World("absent", {"train", "validation", "test"}, tr, va, Repeat(dt[4], MaxExamples),
             << >>, dt[1], << >>)>> :
       tr \in SeqsUpTo(dt[2], 1, MaxLabels),
       va \in SeqsUpTo(dt[3], 1, MaxExamples)} :
    dt \in {<<"int64", Ints(0..(MaxLabels - 1)), Ints((-1)..(MaxLabels - 1)), Sentinel>>,
            <<"string", Strs({"a", "B", "b"}), Strs({"a", "B", "b"}), StrV("a")>>,
            <<"float32", {FloatV(5000)}, {FloatV(-1), FloatV(5000)}, FloatV(-1)>>}}

\* runs of several processes (one per device) that predict
ProcessRuns ==
  {<<NoFiles(t, NONE), TArgs(FALSE, FALSE, TRUE, FALSE, FALSE, FALSE, FALSE, NONE),
     [PlainWorld(t, "absent", {}, SampleSize) EXCEPT !.world_size = n]>> :
     t \in {"mrpc", "mnli", "stsb"}, n \in 2..MaxProcs}

\* evaluations of validation splits of several sizes under max_eval_samples
EvalRuns ==
  {<<DArgs(t, NONE, NoFile, NoFile, NoFile, me),
     TArgs(FALSE, TRUE, FALSE, FALSE, FALSE, FALSE, FALSE, NONE),
     World("absent", {}, PlainTrain(SampleSize), Repeat(IntV(1), len),
           Repeat(Sentinel, MaxExamples), <<"a", "b">>, "classlabel", << >>)>> :
     t \in {"mrpc", "mnli"}, me \in {None, Some(1), Some(MaxExamples + 1)},
     len \in 1..(MaxExamples + 1)}

Invocations ==
  FlagRuns \cup DirRuns \cup ArgRuns \cup GlueLabelRuns \cup LocalLabelRuns \cup ProcessRuns
    \cup EvalRuns

Init ==
  /\ \E inv \in Invocations :
       /\ data_args = inv[1]
       /\ training_args = inv[2]
       /\ world = inv[3]
  /\ pc = "post_init"
  /\ err = [type |-> NONE, at |-> NONE]
  /\ last_checkpoint = NONE
  /\ loaded = NONE
  /\ raw_labels = << >>
  /\ raw_datasets = << >>
  /\ is_regression = FALSE
  /\ label_list = << >>
  /\ num_labels = 0
  /\ config = [label2id |-> << >>, id2label |-> << >>]
  /\ label_to_id = None
  /\ train_dataset = None
  /\ eval_dataset = None
  /\ predict_dataset = None
  /\ init_loader = [cls |-> NONE, registered |-> << >>]
  /\ model = "unbuilt"
  /\ onnx_file = None
  /\ phase = [p \in Range(Phases) |-> "idle"]
  /\ order = << >>
  /\ train_checkpoint = None
  /\ eval_passes = << >>
  /\ predict_files = << >>
  /\ todo = << >>
  /\ predict_todo = << >>
  /\ log = << >>

Spec == Init /\ [][Next]_vars

\* ------------------------------------------------------------------------
\* Sections of the run, in program order
\* ------------------------------------------------------------------------
Sections == <<"post_init", "detect_checkpoint", "load_dataset", "labels", "config",
              "reconcile", "preprocess", "select_train", "select_eval", "nncf",
              "from_pretrained", "export", "select_predict", "trainer", "train",
              "train_save", "evaluate", "eval_loop", "predict", "predict_loop",
              "push_to_hub", "done">>
Position(l) == CHOOSE i \in DOMAIN Sections : Sections[i] = l
\* section l has run to its end
Completed(l) == Position(IF pc = "error" THEN err.at ELSE pc) > Position(l)

TypeOK ==
  /\ pc \in Range(Sections) \cup {"error"}
  /\ (pc = "error") = (err.type # NONE)
  /\ model \in {"unbuilt", "pretrained", "trained"}
  /\ \A p \in Range(Phases) : phase[p] \in {"idle", "running", "finished"}
  /\ Len(order) <= Len(Phases)
  /\ num_labels \in 0..(MaxLabels + 1)

\* ------------------------------------------------------------------------
\* Properties
\* ------------------------------------------------------------------------
RequestedPhases ==
  SelectSeq(Phases, LAMBDA p : \/ p = "train" /\ training_args.do_train
                               \/ p = "evaluate" /\ training_args.do_eval
                               \/ p = "predict" /\ training_args.do_predict
                               \/ p = "push_to_hub" /\ training_args.push_to_hub)

\* C1: the phases start in the order train, evaluate, predict, push-to-hub;
\* only phases whose flag is set start; when a phase has started, every phase
\* started before it has finished; a run that reaches the end of main() has
\* run exactly the phases whose flag is set, each to its end.
C1_PhasesInOrder ==
  /\ Len(order) <= Len(RequestedPhases)
  /\ order = SubSeq(RequestedPhases, 1, Len(order))
  /\ \A i, j \in DOMAIN order : i < j => phase[order[i]] = "finished"
  /\ \A p \in Range(Phases) : phase[p] # "idle" => p \in Range(order)
  /\ pc = "done" => /\ order = RequestedPhases
                    /\ \A p \in Range(order) : phase[p] = "finished"

C1_Witness ==
  /\ pc = "done"
  /\ order = Phases
  /\ data_args.task_name = "mnli"
  /\ Len(eval_passes) = 2

\* C2: when an export is requested together with training, the exported
\* file holds the trained model.
C2_ExportsFinalModel ==
  (~IsNone(onnx_file) /\ training_args.do_train) => Get(onnx_file).weights = "trained"

\* the integer a label of the vocabulary is fed to the model as: the value of
\* the preprocessed label column for an example that carries this label
VocabularyValue(i) == IF data_args.task_name # NONE THEN IntV(i - 1) ELSE label_list[i]
TrainingId(i) ==
  IF IsNone(label_to_id) \/ VocabularyValue(i) = Sentinel THEN VocabularyValue(i).n
  ELSE DictGet(Get(label_to_id), VocabularyValue(i))

\* C3: every row of a classification prediction file carries the label
\* string whose training id is the predicted class id of that row.
C3_WritesOriginalLabel ==
  ~is_regression =>
    \A f \in DOMAIN predict_files : \A r \in DOMAIN predict_files[f].rows :
      \E i \in DOMAIN label_list :
        /\ TrainingId(i) = predict_files[f].predictions[r].n
        /\ predict_files[f].rows[r][2] = label_list[i]

\* the label mapping stored with the pretrained model, and whether its names
\* are the label vocabulary up to letter case
ModelLabel2Id == world.pretrained_label2id
ModelNames == {ModelLabel2Id[j][1].s : j \in DOMAIN ModelLabel2Id}
EqualUpToCase ==
  /\ Len(ModelLabel2Id) = Len(label_list)
  /\ {Lower(t) : t \in ModelNames} = {Lower(label_list[i].s) : i \in DOMAIN label_list}
  /\ Cardinality({Lower(t) : t \in ModelNames}) = Len(label_list)
ModelIdOf(name) ==
  ModelLabel2Id[CHOOSE j \in DOMAIN ModelLabel2Id :
                  Lower(ModelLabel2Id[j][1].s) = Lower(name)][2]
NonDefaultModelLabels ==
  /\ ModelLabel2Id # << >>
  /\ Range(ModelLabel2Id) # {<<StrV(LabelName(i)), i>> : i \in 0..(Len(ModelLabel2Id) - 1)}
C4_Case ==
  /\ Completed("reconcile")
  /\ data_args.task_name # NONE
  /\ ~is_regression
  /\ NonDefaultModelLabels
  /\ EqualUpToCase

\* C4: for a named classification task whose model config has a non-default
\* label2id with the names of the label vocabulary up to letter case, the
\* remap sends every dataset label value i to the id the model gives to the
\* name label_list[i], and the preprocessed label columns carry these ids.
C4_AdoptsModelOrder ==
  C4_Case =>
    /\ ~IsNone(label_to_id)
    /\ \A i \in DOMAIN label_list :
         /\ DictHas(Get(label_to_id), IntV(i - 1))
         /\ DictGet(Get(label_to_id), IntV(i - 1)) = ModelIdOf(label_list[i].s)
    /\ \A sp \in DOMAIN raw_datasets : \A r \in DOMAIN raw_datasets[sp] :
         raw_labels[sp][r] # Sentinel =>
           raw_datasets[sp][r] = IntV(ModelIdOf(label_list[raw_labels[sp][r].n + 1].s))

C4_Witness ==
  /\ C4_Case
  /\ Completed("preprocess")
  /\ \E t \in ModelNames : Lower(t) # t
  /\ \E i \in DOMAIN label_list : ModelIdOf(label_list[i].s) # i - 1
  /\ \E r \in DOMAIN raw_labels["validation"] :
       raw_datasets["validation"][r] # raw_labels["validation"][r]

\* C5: in a classification run num_labels is the number of distinct labels
\* of the train split (the length of the task's label names for a named
\* task), and after the reconciliation config.id2label maps every id in
\* [0, num_labels) to a label of the vocabulary, different ids to different
\* labels.
C5_Id2LabelIsVocabulary ==
  (Completed("reconcile") /\ ~is_regression) =>
    /\ num_labels = IF data_args.task_name # NONE THEN Len(world.names)
                    ELSE Cardinality(Range(raw_labels["train"]))
    /\ \A id \in 0..(num_labels - 1) :
         /\ DictHas(config.id2label, id)
         /\ DictGet(config.id2label, id) \in Range(label_list)
    /\ \A a, b \in 0..(num_labels - 1) :
         (DictHas(config.id2label, a) /\ DictHas(config.id2label, b) /\ a # b)
           => DictGet(config.id2label, a) # DictGet(config.id2label, b)

\* C6: preprocessing leaves a label -1 at -1 whatever the vocabulary and the
\* remap; a label other than -1 is sent through label_to_id when there is
\* one, and left as it is when there is none.
C6_SentinelKept ==
  Completed("preprocess") =>
    \A sp \in DOMAIN raw_labels : \A r \in DOMAIN raw_labels[sp] :
      LET before == raw_labels[sp][r]
          after == raw_datasets[sp][r]
      IN IF before.k \in {"int", "float"} /\ before.n = -1
         THEN after.k \in {"int", "float"} /\ after.n = -1
         ELSE IF IsNone(label_to_id) THEN after = before
         ELSE after = IntV(DictGet(Get(label_to_id), before))

C6_Witness ==
  /\ Completed("preprocess")
  /\ ~IsNone(label_to_id)
  /\ \E i \in DOMAIN Get(label_to_id) : Get(label_to_id)[i][1] # IntV(Get(label_to_id)[i][2])
  /\ \E sp \in DOMAIN raw_labels : \E r \in DOMAIN raw_labels[sp] :
       raw_labels[sp][r] = Sentinel /\ raw_datasets[sp][r] = Sentinel
  /\ \E sp \in DOMAIN raw_labels : \E r \in DOMAIN raw_labels[sp] :
       raw_labels[sp][r] # Sentinel /\ raw_datasets[sp][r] # raw_labels[sp][r]

\* the validation split of the active task configuration
ValidationSplit == IF data_args.task_name = "mnli" THEN "validation_matched" ELSE "validation"
C7_Case ==
  /\ training_args.do_eval
  /\ loaded # NONE
  /\ ValidationSplit \notin DOMAIN raw_labels

\* C7: with do_eval set and no validation split for the task configuration
\* in the loaded dataset, the run never gets past the selection of the
\* evaluation dataset: it ends in an error there or earlier, and the model
\* is never constructed.
C7_FailsBeforeModel ==
  C7_Case =>
    /\ model = "unbuilt"
    /\ ~Completed("select_eval")
    /\ pc \notin {"nncf", "from_pretrained", "export", "done"}

C7_Witness ==
  /\ C7_Case
  /\ pc = "error"
  /\ err.at = "select_eval"
  /\ err.type \in {"ValueError", "KeyError"}
  /\ model = "unbuilt"

EvalSplitsRead == [i \in DOMAIN eval_passes |-> eval_passes[i].split]

\* C8: the evaluate phase of an mnli run makes exactly two passes, over
\* validation_matched and then validation_mismatched, and none over
\* validation; the evaluate phase of any other run makes exactly one pass,
\* over validation.
C8_EvaluationPasses ==
  /\ \A i \in DOMAIN eval_passes :
       data_args.task_name = "mnli" => eval_passes[i].split # "validation"
  /\ phase["evaluate"] = "finished" =>
       EvalSplitsRead = IF data_args.task_name = "mnli"
                        THEN <<"validation_matched", "validation_mismatched">>
                        ELSE <<"validation">>
  /\ phase["evaluate"] = "idle" => eval_passes = << >>

C8_Witness ==
  /\ phase["evaluate"] = "finished"
  /\ data_args.task_name = "mnli"
  /\ EvalSplitsRead = <<"validation_matched", "validation_mismatched">>
  /\ "validation" \notin DOMAIN raw_datasets

Collision ==
  world.out_dir \in {"files", "checkpoint"} /\ ~training_args.overwrite_output_dir
CheckpointInDir == world.out_dir = "checkpoint"

\* C9 as stated: a run whose output directory is non-empty and not covered
\* by the overwrite flag has failed once the directory has been looked at,
\* unless the directory holds a checkpoint; then the run does not fail there
\* and training resumes from that checkpoint.
C9_CollisionIsFatal ==
  (Collision /\ pc # "post_init" /\ err.at # "post_init") =>
    IF CheckpointInDir
    THEN /\ err.at # "detect_checkpoint"
         /\ ~IsNone(train_checkpoint) => Get(train_checkpoint) = "checkpoint-1"
    ELSE Completed("detect_checkpoint") => pc = "error"

\* C9 amended: a run with do_train set whose output directory is non-empty
\* and not covered by the overwrite flag fails when the directory is looked
\* at, before any dataset is loaded, unless the directory holds a
\* checkpoint; then the run does not fail there and training resumes from
\* that checkpoint unless resume_from_checkpoint names another one.
C9_CollisionIsFatalWhenTraining ==
  (Collision /\ training_args.do_train /\ pc # "post_init" /\ err.at # "post_init") =>
    IF CheckpointInDir
    THEN /\ err.at # "detect_checkpoint"
         /\ Completed("detect_checkpoint") => last_checkpoint = "checkpoint-1"
         /\ ~IsNone(train_checkpoint) =>
              Get(train_checkpoint) = IF training_args.resume_from_checkpoint = NONE
                                      THEN "checkpoint-1"
                                      ELSE training_args.resume_from_checkpoint
    ELSE /\ pc # "detect_checkpoint" => (pc = "error" /\ err.at = "detect_checkpoint")
         /\ loaded = NONE
         /\ model = "unbuilt"

C9_Witness ==
  /\ Collision
  /\ training_args.do_train
  /\ CheckpointInDir
  /\ training_args.resume_from_checkpoint = NONE
  /\ phase["train"] = "finished"
  /\ train_checkpoint = Some("checkpoint-1")

FilesGiven == data_args.train_file # NoFile /\ data_args.validation_file # NoFile
ExtensionsDiffer ==
  data_args.train_file[Len(data_args.train_file)] #
    data_args.validation_file[Len(data_args.validation_file)]

\* C10 as stated: whenever train_file and validation_file have different
\* extensions the run fails in the validation of the arguments, with no
\* dataset loaded.
C10_MismatchFails ==
  (FilesGiven /\ ExtensionsDiffer /\ pc # "post_init") =>
    /\ pc = "error"
    /\ err.at = "post_init"
    /\ loaded = NONE

\* C10 amended: whenever neither a task name nor a dataset name is given and
\* train_file and validation_file have different extensions, the run fails
\* in the validation of the arguments, with no dataset loaded.
C10_MismatchFailsForLocalFiles ==
  (/\ data_args.task_name = NONE
   /\ data_args.dataset_name = NONE
   /\ FilesGiven /\ ExtensionsDiffer /\ pc # "post_init") =>
    /\ pc = "error"
    /\ err.at = "post_init"
    /\ loaded = NONE

C10_Witness ==
  /\ data_args.task_name = NONE
  /\ data_args.dataset_name = NONE
  /\ data_args.train_file = <<"train", "csv">>
  /\ data_args.validation_file = <<"dev", "json">>
  /\ pc = "error"
  /\ err = [type |-> "AssertionError", at |-> "post_init"]
  /\ loaded = NONE

\* the tasks of the prediction passes of the run, in order
PredictTasks ==
  IF data_args.task_name = "mnli" THEN <<"mnli", "mnli-mm">> ELSE <<data_args.task_name>>

\* the examples of the dataset a prediction pass predicts
PredictedExamples(f) ==
  Len(raw_datasets[IF data_args.task_name # "mnli" THEN "test"
                   ELSE IF f = 1 THEN "test_matched" ELSE "test_mismatched"])

\* C11: each prediction pass leaves a file predict_results_<task>.txt in the
\* output directory that starts with the header index<TAB>prediction and then
\* has one row per example of the predicted dataset, numbered 0..n-1 in
\* dataset order.
C11_OneRowPerExample ==
  /\ \A f \in DOMAIN predict_files :
       /\ predict_files[f].file =
            <<"output_dir", "predict_results_",
              IF PredictTasks[f] = NONE THEN "None" ELSE PredictTasks[f], ".txt">>
       /\ predict_files[f].header = <<"index", "prediction">>
       /\ Len(predict_files[f].rows) = PredictedExamples(f)
       /\ \A r \in DOMAIN predict_files[f].rows :
            /\ predict_files[f].rows[r][1] = r - 1
            /\ predict_files[f].rows[r][2] =
                 PredictionText(predict_files[f].predictions[r], is_regression, label_list)
  /\ phase["predict"] = "finished" => Len(predict_files) = Len(PredictTasks)

\* a regression run, by its inputs
RegressionRun ==
  \/ data_args.task_name \in {"stsb", "STSB"}
  \/ data_args.task_name = NONE /\ world.dtype \in {"float32", "float64"}

\* the number a prediction row spells, in thousandths
Thousandths(text) ==
  (IF text.neg THEN -1 ELSE 1) *
  (1000 * text.whole + 100 * text.frac[1] + 10 * text.frac[2] + text.frac[3])

\* C12: in a regression run num_labels is 1, there is no label vocabulary
\* and no label-to-id remap, preprocessing leaves the labels as loaded, and
\* every prediction row is the score as a decimal with three fractional
\* digits.
C12_RegressionHasNoVocabulary ==
  RegressionRun =>
    /\ Completed("labels") => is_regression /\ num_labels = 1 /\ label_list = << >>
    /\ Completed("reconcile") => IsNone(label_to_id)
    /\ Completed("preprocess") => raw_datasets = raw_labels
    /\ \A f \in DOMAIN predict_files : \A r \in DOMAIN predict_files[f].rows :
         LET text == predict_files[f].rows[r][2]
             score == predict_files[f].predictions[r].n
         IN /\ text.k = "decimal"
            /\ Len(text.frac) = 3
            /\ \A d \in DOMAIN text.frac : text.frac[d] \in 0..9
            /\ Abs(10 * Thousandths(text) - score) <= 5

C12_Witness ==
  /\ RegressionRun
  /\ pc = "done"
  /\ \E f \in DOMAIN predict_files :
       /\ Len(predict_files[f].rows) > 1
       /\ \E r \in DOMAIN predict_files[f].rows : predict_files[f].rows[r][2].neg

C13_Case ==
  /\ Completed("labels")
  /\ data_args.task_name # NONE
  /\ ~is_regression
  /\ NonDefaultModelLabels
  /\ ~EqualUpToCase

\* C13: for a named task whose model config has a non-default label mapping
\* with names that are not the label vocabulary, the reconciliation and the
\* preprocessing do not fail, a warning reaches the log, no remap is
\* installed and the label columns keep the ids of the dataset.
C13_MismatchFallsBack ==
  C13_Case =>
    /\ pc = "error" => err.at \notin {"config", "reconcile", "preprocess"}
    /\ Completed("reconcile") =>
         /\ \E i \in DOMAIN log : log[i] = [stream |-> "log", entry |-> "WARNING"]
         /\ IsNone(label_to_id)
    /\ Completed("preprocess") => raw_datasets = raw_labels

\* C14: a run loads one dataset source: the GLUE task when a task name is
\* given, else the hub dataset when a dataset name is given, else the local
\* files; nothing is loaded before, and the splits of the run are those of
\* that source.
C14_SourceByPriority ==
  IF ~Completed("load_dataset") THEN loaded = NONE /\ raw_labels = << >>
  ELSE IF data_args.task_name # NONE
  THEN loaded = "glue" /\ DOMAIN raw_labels = GlueSplits(data_args.task_name)
  ELSE IF data_args.dataset_name # NONE
  THEN loaded = "hub" /\ DOMAIN raw_labels = world.hub_splits
  ELSE /\ loaded \in {"csv", "json"}
       /\ {"train", "validation"} \subseteq DOMAIN raw_labels
       /\ DOMAIN raw_labels \subseteq {"train", "validation", "test"}

C14_Witness ==
  /\ pc = "done"
  /\ data_args.task_name # NONE
  /\ data_args.dataset_name # NONE
  /\ data_args.train_file # NoFile
  /\ data_args.validation_file # NoFile
  /\ loaded = "glue"

\* C15: in a run of several processes every prediction file is opened and
\* written by world process zero and by no other process, once, whatever
\* the order in which the processes go through their prediction loops.
C15_OnlyProcessZeroWrites ==
  /\ \A f \in DOMAIN predict_files : predict_files[f].process = 0
  /\ \A f, g \in DOMAIN predict_files :
       predict_files[f].file = predict_files[g].file => f = g
  /\ phase["predict"] = "finished" =>
       {predict_files[f].task : f \in DOMAIN predict_files} = Range(PredictTasks)

\* another process has been through both passes of mnli before process zero
\* has written its second file
C15_Witness ==
  /\ world.world_size > 1
  /\ pc = "predict_loop"
  /\ \E p \in Ranks(world) : p # 0 /\ predict_todo[p] = << >>
  /\ Len(predict_todo[0]) = 1
  /\ Len(predict_files) = 1
  /\ predict_files[1].process = 0

\* the run ended because the loaded dataset has no test split to predict on
FailedForTestSplit ==
  /\ pc = "error"
  /\ \/ err.at = "select_predict" /\ err.type \in {"ValueError", "KeyError"}
     \/ err.at = "predict" /\ err.type = "KeyError"
     \/ err.at = "load_dataset" /\ err.type = "ValueError"

\* C16: a run without do_predict does not fail for the lack of a test
\* split, whatever the data source and the other arguments are.
C16_TestSplitOnlyForPredict ==
  ~training_args.do_predict => ~FailedForTestSplit

\* C17: with a compression config and do_train or do_eval, the compression
\* set-up has an initializing data-loader class for the task of the run when
\* it wraps the data loaders: it does not fail, and the loaders it registers
\* are wrapped in a class.
C17_LoaderSelected ==
  (training_args.nncf_config /\ (training_args.do_train \/ training_args.do_eval)) =>
    /\ ~(pc = "error" /\ err.at = "nncf")
    /\ Completed("nncf") => init_loader.cls # NONE /\ init_loader.registered # << >>

\* C18: the eval_samples metric of every evaluation pass is the number of
\* examples of the dataset the pass evaluated.
C18_EvalSamplesAreEvaluated ==
  \A i \in DOMAIN eval_passes : eval_passes[i].eval_samples = eval_passes[i].examples

\* the checkpoint of the output directory, when the run may use it
UsableCheckpoint ==
  IF /\ world.out_dir # "absent"
     /\ training_args.do_train
     /\ ~training_args.overwrite_output_dir
     /\ CheckpointInDir
  THEN "checkpoint-1" ELSE NONE

\* C19: trainer.train is given resume_from_checkpoint when that is set,
\* else the checkpoint of the output directory when the directory exists,
\* do_train is set and overwrite_output_dir is not, else no checkpoint.
C19_ResumePriority ==
  ~IsNone(train_checkpoint) =>
    Get(train_checkpoint) =
      IF training_args.resume_from_checkpoint # NONE
      THEN training_args.resume_from_checkpoint
      ELSE UsableCheckpoint

\* a run with both a resume path and a checkpoint in its output directory
C19_Witness ==
  /\ pc = "done"
  /\ training_args.resume_from_checkpoint # NONE
  /\ last_checkpoint = "checkpoint-1"
  /\ train_checkpoint = Some(training_args.resume_from_checkpoint)
====
